---- MODULE Spec2Model ----
(***************************************************************************)
(* Model of NYSE_Auction_Scraper.py: the date range expander               *)
(* (get_weekdays), the page navigator (AdvancedWebScraper.navigate), the   *)
(* in-page chart extractor (raw_data_script), the record normalizer and    *)
(* the run orchestrator (nyse_auction_scraper_example) driven by main.     *)
(***************************************************************************)
EXTENDS Integers, Sequences, FiniteSets, TLC

VARIABLES
    pc,            \* position of the run: main -> construct -> nav -> ... -> done
    start_date,    \* main: start_date string
    end_date,      \* main: end_date string
    tickers,       \* list of ticker symbols handed to the orchestrator
    dates,         \* list returned by get_weekdays
    ti, di,        \* 1-based positions of the two for loops (ticker, date)
    all_data,      \* the record accumulator
    page,          \* the page the last successful navigation landed on
    raw_data,      \* the bundle json.loads returned for the current pair
    lastNav,       \* what the last navigate call did and returned
    log,           \* logger output, oldest first
    browser,       \* "none" | "open" | "closed" | "quit_failed"
    closeCalls,    \* number of times scraper.close() has been entered
    exportCalls,   \* number of times the export (DataFrame + to_csv) was attempted
    exported,      \* the records handed to the export that completed
    pairLog,       \* history: one entry per pair the loop body was entered for
    outcome,       \* "running" | "returned" | "raised": how main's call chain ended
    failure        \* history: where an exception was raised ("none" if nowhere)

vars == << pc, start_date, end_date, tickers, dates, ti, di, all_data, page, raw_data,
           lastNav, log, browser, closeCalls, exportCalls, exported, pairLog,
           outcome, failure >>

-----------------------------------------------------------------------------
(* Bounds of the model                                                      *)

MaxTickers == 2     \* longest ticker list tried
DateSpan == 8       \* days in the window the expander alone is tried on
MaxLen == 2         \* longest times / values sequence of a series
MaxHeaders == 2     \* most chart-section headings on a page the query alone is tried on
MaxCharts == 6      \* most entries of Highcharts.charts on such a page

-----------------------------------------------------------------------------
(* Calendar arithmetic behind datetime.strptime / strftime / timedelta      *)

NULL == "null"

Min(a, b) == IF a <= b THEN a ELSE b

IsLeap(y) == (y % 4 = 0) /\ ((y % 100 # 0) \/ (y % 400 = 0))

DaysInMonth(y, m) ==
    IF m = 2 THEN (IF IsLeap(y) THEN 29 ELSE 28)
    ELSE IF m \in {4, 6, 9, 11} THEN 30 ELSE 31

DaysBeforeMonthTable == << 0, 31, 59, 90, 120, 151, 181, 212, 243, 273, 304, 334 >>

DaysBeforeMonth(y, m) ==
    DaysBeforeMonthTable[m] + (IF m > 2 /\ IsLeap(y) THEN 1 ELSE 0)

DaysBeforeYear(y) ==
    (y - 1) * 365 + ((y - 1) \div 4) - ((y - 1) \div 100) + ((y - 1) \div 400)

\* date.toordinal(): 1 is 01-01-0001
Ymd2Ord(y, m, d) == DaysBeforeYear(y) + DaysBeforeMonth(y, m) + d

\* date.fromordinal(), as the datetime module computes it
Ord2Ymd(ord) ==
    LET n0   == ord - 1
        n400 == n0 \div 146097
        r400 == n0 % 146097
        n100 == r400 \div 36524
        r100 == r400 % 36524
        n4   == r100 \div 1461
        r4   == r100 % 1461
        n1   == r4 \div 365
        n    == r4 % 365
        year == n400 * 400 + 1 + n100 * 100 + n4 * 4 + n1
    IN  IF n1 = 4 \/ n100 = 4
        THEN [y |-> year - 1, m |-> 12, d |-> 31]
        ELSE LET leap   == (n1 = 3) /\ ((n4 # 24) \/ (n100 = 3))
                 guess  == (n + 50) \div 32
                 before == DaysBeforeMonthTable[guess]
                           + (IF guess > 2 /\ leap THEN 1 ELSE 0)
                 month  == IF before > n THEN guess - 1 ELSE guess
                 prec   == IF before > n
                           THEN before - ((IF month = 2 /\ leap THEN 29
                                           ELSE IF month = 2 THEN 28
                                           ELSE IF month \in {4, 6, 9, 11} THEN 30
                                           ELSE 31))
                           ELSE before
             IN  [y |-> year, m |-> month, d |-> n - prec + 1]

\* A date string "MM-DD-YYYY" is modelled by its three numeric fields and
\* whether the month and day fields are zero padded ("12-3-2024" is not).
DateString(m, d, y, padded) == [m |-> m, d |-> d, y |-> y, padded |-> padded]

\* datetime.strptime(s, "%m-%d-%Y") raises ValueError unless the fields name a day
Parseable(s) ==
    /\ s.y \in 1..9999
    /\ s.m \in 1..12
    /\ s.d >= 1
    /\ s.d <= DaysInMonth(s.y, s.m)

\* the datetime strptime returns, as its ordinal (padding is not kept)
strptime(s) == Ymd2Ord(s.y, s.m, s.d)

\* current.strftime("%m-%d-%Y"): always zero padded
strftime(ord) ==
    LET c == Ord2Ymd(ord) IN DateString(c.m, c.d, c.y, TRUE)

\* datetime.weekday(): Monday = 0 ... Sunday = 6
weekday(ord) == (ord + 6) % 7

-----------------------------------------------------------------------------
(* get_weekdays                                                             *)

\* the condition of line 76
IsWeekdayMut(ord) == weekday(ord) <= 5
IsWeekday(ord) == weekday(ord) < 5

\* the while loop of lines 75-78
RECURSIVE WeekdaysLoop(_, _, _)
WeekdaysLoop(current, end, weekdays) ==
    IF current <= end
    THEN WeekdaysLoop(current + 1, end,
                      IF IsWeekday(current)
                      THEN Append(weekdays, strftime(current))
                      ELSE weekdays)
    ELSE weekdays

\* get_weekdays(start_date, end_date): the list, or the ValueError of strptime
get_weekdays(s, e) ==
    IF ~Parseable(s) \/ ~Parseable(e)
    THEN [raised |-> TRUE, value |-> << >>]
    ELSE [raised |-> FALSE, value |-> WeekdaysLoop(strptime(s), strptime(e), << >>)]

-----------------------------------------------------------------------------
(* AdvancedWebScraper.navigate                                              *)

LoadOutcomes == {"ok", "error"}               \* driver.get(url)
WaitOutcomes == {"ok", "timeout", "error"}    \* self.wait.until(wait_condition)

NavigationError == << "error", "Navigation error" >>

\* navigate(url, wait_condition, additional_wait): the steps it ran, what it
\* returned, whether an exception left it, and what it logged
navigateMut(load, hasWait, wait) ==
    IF load # "ok"
    THEN [steps |-> << "get" >>, ret |-> FALSE, raised |-> FALSE,
          logged |-> << NavigationError >>]
    ELSE IF hasWait /\ wait = "error"
    THEN [steps |-> << "get", "wait" >>, ret |-> FALSE, raised |-> FALSE,
          logged |-> << NavigationError >>]
    ELSE IF hasWait /\ wait = "timeout"
    THEN [steps |-> << "get", "wait" >>, ret |-> FALSE, raised |-> TRUE,
          logged |-> << >>]
    ELSE [steps |-> (IF hasWait THEN << "get", "wait", "sleep" >>
                     ELSE << "get", "sleep" >>),
          ret |-> TRUE, raised |-> FALSE, logged |-> << >>]

navigateSleepAlways(load, hasWait, wait) ==
    IF load # "ok"
    THEN [steps |-> << "get", "sleep" >>, ret |-> FALSE, raised |-> FALSE,
          logged |-> << NavigationError >>]
    ELSE IF hasWait /\ wait # "ok"
    THEN [steps |-> << "get", "wait", "sleep" >>, ret |-> FALSE, raised |-> FALSE,
          logged |-> << NavigationError >>]
    ELSE [steps |-> (IF hasWait THEN << "get", "wait", "sleep" >>
                     ELSE << "get", "sleep" >>),
          ret |-> TRUE, raised |-> FALSE, logged |-> << >>]

navigate(load, hasWait, wait) ==
    IF load # "ok"
    THEN [steps |-> << "get" >>, ret |-> FALSE, raised |-> FALSE,
          logged |-> << NavigationError >>]
    ELSE IF hasWait /\ wait # "ok"
    THEN [steps |-> << "get", "wait" >>, ret |-> FALSE, raised |-> FALSE,
          logged |-> << NavigationError >>]
    ELSE [steps |-> (IF hasWait THEN << "get", "wait", "sleep" >>
                     ELSE << "get", "sleep" >>),
          ret |-> TRUE, raised |-> FALSE, logged |-> << >>]

\* lastNav before any call
NoNav == [steps |-> << >>, ret |-> FALSE, raised |-> FALSE,
          load |-> "none", wait |-> "none"]

-----------------------------------------------------------------------------
(* The in-page query raw_data_script                                        *)

Phases == << "opening", "closing" >>
Metrics == << "imbalance", "paired", "price" >>

TimePool == << "09:28:00", "09:29:00", "09:30:00" >>
LabelPool == << "1.0K", NULL, "1.4K" >>

Time(i) == TimePool[((i - 1) % Len(TimePool)) + 1]
Point(i) == [y |-> 800 + 200 * i, label |-> LabelPool[((i - 1) % Len(LabelPool)) + 1]]

\* A Highcharts chart: undefined (no such index, or a destroyed chart), or
\* an object whose first series may be missing and whose x axis may have no
\* categories; nt category labels, nv points
Chart(nt, nv) ==
    [defined |-> TRUE, hasSeries |-> TRUE, hasCategories |-> TRUE,
     categories |-> [i \in 1..nt |-> Time(i)],
     points |-> [i \in 1..nv |-> Point(i)]]

UndefinedChart ==
    [defined |-> FALSE, hasSeries |-> FALSE, hasCategories |-> FALSE,
     categories |-> << >>, points |-> << >>]

NoSeriesChart == [Chart(1, 0) EXCEPT !.hasSeries = FALSE]

NoCategoriesChart(nv) ==
    [Chart(0, nv) EXCEPT !.hasCategories = FALSE]

\* SeriesData as json.loads returns it: null, or a dict with "values" and,
\* unless categories was undefined, "times"
NullSeries == [present |-> FALSE, hasTimes |-> FALSE, times |-> << >>, values |-> << >>]

Series(times, values) ==
    [present |-> TRUE, hasTimes |-> TRUE, times |-> times, values |-> values]

extractSeriesDataNoGuard(chart) ==
    IF ~chart.defined
    THEN NullSeries
    ELSE [present |-> TRUE, hasTimes |-> chart.hasCategories,
          times |-> chart.categories, values |-> chart.points]

extractSeriesData(chart) ==
    IF ~chart.defined \/ ~chart.hasSeries
    THEN NullSeries
    ELSE [present |-> TRUE, hasTimes |-> chart.hasCategories,
          times |-> chart.categories, values |-> chart.points]

\* Highcharts.charts[i], i counted from 0: undefined past the end
ChartAt(charts, i) == IF i + 1 <= Len(charts) THEN charts[i + 1] ELSE UndefinedChart

\* PhaseData: {} (assigned = FALSE) or the three slots
EmptyPhase == [assigned |-> FALSE, imbalance |-> NullSeries, paired |-> NullSeries,
               price |-> NullSeries]

EmptyBundle == [opening |-> EmptyPhase, closing |-> EmptyPhase]

\* header.textContent.includes('Opening'); a text is its sequence of words
IncludesOpening(text) == \E i \in 1..Len(text) : text[i] = "Opening"

\* the three charts from chartIndex on, as the slots of one heading
Triplet(charts, chartIndex) ==
    [assigned |-> TRUE,
     imbalance |-> extractSeriesData(ChartAt(charts, chartIndex)),
     paired |-> extractSeriesData(ChartAt(charts, chartIndex + 1)),
     price |-> extractSeriesData(ChartAt(charts, chartIndex + 2))]

\* the body of the forEach callback, lines 110-114, for one header
HeaderStepSwapped(rawData, header, charts, chartIndex) ==
    LET type == IF IncludesOpening(header) THEN "opening" ELSE "closing"
        t == Triplet(charts, chartIndex)
    IN  [rawData EXCEPT ![type] = [t EXCEPT !.paired = t.price, !.price = t.paired]]

HeaderStepKeepFirst(rawData, header, charts, chartIndex) ==
    LET type == IF IncludesOpening(header) THEN "opening" ELSE "closing"
    IN  IF rawData[type].assigned THEN rawData
        ELSE [rawData EXCEPT ![type] = Triplet(charts, chartIndex)]

HeaderStep(rawData, header, charts, chartIndex) ==
    LET type == IF IncludesOpening(header) THEN "opening" ELSE "closing"
    IN  [rawData EXCEPT ![type] = Triplet(charts, chartIndex)]

\* the headers.forEach of lines 109-116, from header k on
RECURSIVE HeadersLoop(_, _, _, _, _)
HeadersLoop(headers, charts, k, chartIndex, rawData) ==
    IF k > Len(headers)
    THEN rawData
    ELSE HeadersLoop(headers, charts, k + 1, chartIndex + 3,
                     HeaderStep(rawData, headers[k], charts, chartIndex))

\* json.loads(execute_script(raw_data_script)) on a page
raw_data_script(document) ==
    HeadersLoop(document.headers, document.charts, 1, 0, EmptyBundle)

-----------------------------------------------------------------------------
(* The record normalizer: lines 121-137                                     *)

\* metric_name of line 127
metric_nameMut(metric) == metric

metric_name(metric) ==
    IF metric = "paired" THEN "paired_quantity"
    ELSE IF metric = "price" THEN "clearing_price"
    ELSE metric

\* the records appended by "for t, v in zip(times, values)"
ZipRecordsMut(ticker, date, auction_type, metric, times, values) ==
    [i \in 1..(Min(Len(times), Len(values)) - 1) |->
        [symbol |-> ticker, date |-> date, auction_type |-> auction_type,
         metric |-> metric_name(metric), time |-> times[i],
         value |-> values[i].y, label |-> values[i].label]]

ZipRecordsReversed(ticker, date, auction_type, metric, times, values) ==
    LET n == Min(Len(times), Len(values))
    IN  [i \in 1..n |->
            [symbol |-> ticker, date |-> date, auction_type |-> auction_type,
             metric |-> metric_name(metric), time |-> times[n + 1 - i],
             value |-> values[n + 1 - i].y, label |-> values[n + 1 - i].label]]

ZipRecords(ticker, date, auction_type, metric, times, values) ==
    [i \in 1..Min(Len(times), Len(values)) |->
        [symbol |-> ticker, date |-> date, auction_type |-> auction_type,
         metric |-> metric_name(metric), time |-> times[i],
         value |-> values[i].y, label |-> values[i].label]]

\* the (auction_type, metric) pairs in the order the two for loops visit them
SlotOrder ==
    [k \in 1..(Len(Phases) * Len(Metrics)) |->
        << Phases[((k - 1) \div Len(Metrics)) + 1], Metrics[((k - 1) % Len(Metrics)) + 1] >>]

\* raw_data[auction_type] is truthy and raw_data[auction_type].get(metric) is truthy
SlotPresentMut(raw, auction_type, metric) == raw[auction_type].assigned

SlotPresent(raw, auction_type, metric) ==
    raw[auction_type].assigned /\ raw[auction_type][metric].present

\* the loops of lines 121-137 from slot k on; out is what has been appended.
\* raw_data[auction_type][metric]['times'] raises KeyError when the key is
\* missing, and the loops stop there with the records appended so far.
RECURSIVE NormalizeFrom(_, _, _, _, _)
NormalizeFrom(ticker, date, raw, k, out) ==
    IF k > Len(SlotOrder)
    THEN [out |-> out, raised |-> FALSE]
    ELSE LET auction_type == SlotOrder[k][1]
             metric == SlotOrder[k][2]
             series == raw[auction_type][metric]
         IN  IF ~SlotPresent(raw, auction_type, metric)
             THEN NormalizeFrom(ticker, date, raw, k + 1, out)
             ELSE IF ~series.hasTimes
             THEN [out |-> out, raised |-> TRUE]
             ELSE NormalizeFrom(ticker, date, raw, k + 1,
                      out \o ZipRecords(ticker, date, auction_type, metric,
                                        series.times, series.values))

Normalize(ticker, date, raw) == NormalizeFrom(ticker, date, raw, 1, << >>)

-----------------------------------------------------------------------------
(* Inputs of a run                                                          *)

TickerPool == << "A", "MMM", "WFC" >>

TickerLists == { SubSeq(TickerPool, 1, n) : n \in 0..Min(MaxTickers, Len(TickerPool)) }

Friday == DateString(12, 6, 2024, TRUE)
Saturday == DateString(12, 7, 2024, TRUE)
Monday == DateString(12, 9, 2024, TRUE)
NoSuchDay == DateString(2, 30, 2024, TRUE)

\* start and end dates a whole run is tried on
MainDateStrings == { Friday, Saturday, Monday, NoSuchDay }

\* the browser before any page was loaded
NoPage == [headers |-> << >>, charts |-> << >>]

HeaderOpening == << "Opening", "Auction", "Imbalance" >>
HeaderClosing == << "Closing", "Auction", "Imbalance" >>

\* both phases; an undefined chart, a chart without series and two charts
\* whose categories and points differ in number
PageBoth ==
    [headers |-> << HeaderOpening, HeaderClosing >>,
     charts |-> << Chart(MaxLen, MaxLen), UndefinedChart, Chart(1, 1),
                   Chart(1, MaxLen), NoSeriesChart, Chart(MaxLen, 1) >>]

\* fewer chart instances than the headings require
PageShort ==
    [headers |-> << HeaderOpening, HeaderClosing >>, charts |-> << Chart(1, 1) >>]

\* no heading matched the selector
PageNoHeaders == [headers |-> << >>, charts |-> << Chart(1, 1) >>]

\* the second chart's x axis has no categories
PageNoCategories ==
    [headers |-> << HeaderOpening >>,
     charts |-> << Chart(1, 1), NoCategoriesChart(1), Chart(1, 1) >>]

\* pages a navigation of a whole run may land on
Pages == { PageBoth, PageShort, PageNoHeaders, PageNoCategories }

-----------------------------------------------------------------------------
(* The run: main and nyse_auction_scraper_example                           *)

ScrapingFailed == << "error", "Scraping failed" >>
NavigateWarning(ticker, date) == << "warning", "Failed to navigate to URL", ticker, date >>

\* where the two for loops go after the pair (t, d): the next pair, or past
\* the loops
NextPair(t, d) ==
    IF d < Len(dates) THEN [more |-> TRUE, ti |-> t, di |-> d + 1]
    ELSE IF t < Len(tickers) THEN [more |-> TRUE, ti |-> t + 1, di |-> 1]
    ELSE [more |-> FALSE, ti |-> t, di |-> d]

\* the body of the inner loop is done for the current pair: go on
Advance ==
    LET n == NextPair(ti, di)
    IN  /\ pc' = IF n.more THEN "nav" ELSE "export"
        /\ ti' = n.ti
        /\ di' = n.di

\* an exception reached "except Exception as e" of line 149: it is logged
\* and control goes to the finally block
ExceptMut(where, logged) ==
    /\ log' = log \o logged \o << ScrapingFailed >>
    /\ failure' = where
    /\ pc' = "done"
    /\ UNCHANGED << ti, di >>

Except(where, logged) ==
    /\ log' = log \o logged \o << ScrapingFailed >>
    /\ failure' = where
    /\ pc' = "finally"
    /\ UNCHANGED << ti, di >>

\* history entry of the pair (ti, di): how far its loop body got and how many
\* records it appended
PairEntry(status, count) ==
    [symbol |-> tickers[ti], date |-> dates[di], status |-> status, count |-> count]

SetLast(seq, e) == [seq EXCEPT ![Len(seq)] = e]

\* main, lines 155-158: get_weekdays either raises out of main or returns
MainGetWeekdays ==
    /\ pc = "main"
    /\ LET r == get_weekdays(start_date, end_date)
       IN  IF r.raised
           THEN /\ pc' = "done"
                /\ outcome' = "raised"
                /\ failure' = "range"
                /\ UNCHANGED dates
           ELSE /\ pc' = "construct"
                /\ dates' = r.value
                /\ UNCHANGED << outcome, failure >>
    /\ UNCHANGED << page, start_date, end_date, tickers, ti, di, all_data, raw_data, lastNav,
                    log, browser, closeCalls, exportCalls, exported, pairLog >>

\* line 82-83: the scraper is constructed outside the try block
Construct ==
    /\ pc = "construct"
    /\ \E ok \in BOOLEAN :
         IF ok
         THEN /\ browser' = "open"
              /\ log' = Append(log, << "info", "WebDriver initialized successfully" >>)
              /\ pc' = IF Len(tickers) > 0 /\ Len(dates) > 0 THEN "nav" ELSE "export"
              /\ UNCHANGED << outcome, failure >>
         ELSE /\ pc' = "done"
              /\ outcome' = "raised"
              /\ failure' = "construct"
              /\ UNCHANGED << browser, log >>
    /\ UNCHANGED << page, start_date, end_date, tickers, dates, ti, di, all_data, raw_data,
                    lastNav, closeCalls, exportCalls, exported, pairLog >>

\* the else branch of lines 138-139: a warning names the pair and the loop
\* goes on
NavFailedMut(logged) ==
    /\ pc' = "export"
    /\ log' = log \o logged \o << NavigateWarning(tickers[ti], dates[di]) >>
    /\ UNCHANGED << ti, di, failure >>

NavFailedExtracts(logged) ==
    /\ pc' = "extract"
    /\ log' = log \o logged \o << NavigateWarning(tickers[ti], dates[di]) >>
    /\ UNCHANGED << ti, di, failure >>

NavFailed(logged) ==
    /\ Advance
    /\ log' = log \o logged \o << NavigateWarning(tickers[ti], dates[di]) >>
    /\ UNCHANGED failure

\* lines 88-92 and 138-139: navigate for the pair (ti, di), then the branch
NavigateCall ==
    /\ pc = "nav"
    /\ \E load \in LoadOutcomes, wait \in WaitOutcomes, landed \in Pages :
         LET r == navigate(load, TRUE, wait)
         IN  /\ lastNav' = [steps |-> r.steps, ret |-> r.ret, raised |-> r.raised,
                            load |-> load,
                            wait |-> IF load = "ok" THEN wait ELSE "none"]
             /\ IF r.raised
                THEN /\ Except("pair", r.logged)
                     /\ pairLog' = Append(pairLog, PairEntry("exception", 0))
                     /\ UNCHANGED page
                ELSE IF r.ret
                THEN /\ pc' = "extract"
                     /\ page' = landed
                     /\ log' = log \o r.logged
                     /\ pairLog' = Append(pairLog, PairEntry("navigated", 0))
                     /\ UNCHANGED << ti, di, failure >>
                ELSE /\ NavFailed(r.logged)
                     /\ pairLog' = Append(pairLog, PairEntry("navfail", 0))
                     /\ UNCHANGED page
    /\ UNCHANGED << start_date, end_date, tickers, dates, all_data, raw_data, browser,
                    closeCalls, exportCalls, exported, outcome >>

\* lines 93-119: the in-page query runs on the page the browser shows;
\* execute_script may raise (a script error, a lost session)
ExtractCall ==
    /\ pc = "extract"
    /\ \E scriptOk \in BOOLEAN :
         IF scriptOk
         THEN /\ raw_data' = raw_data_script(page)
              /\ pc' = "normalize"
              /\ UNCHANGED << ti, di, log, failure, pairLog >>
         ELSE /\ Except("pair", << >>)
              /\ pairLog' = SetLast(pairLog, PairEntry("exception", 0))
              /\ UNCHANGED raw_data
    /\ UNCHANGED << page, start_date, end_date, tickers, dates, all_data, lastNav, browser,
                    closeCalls, exportCalls, exported, outcome >>

\* all_data.append(...), line 129, for the records of one pair: the
\* accumulator after them
AccumulateMut(acc, out) == out

Accumulate(acc, out) == acc \o out

\* lines 121-137: the records of the bundle are appended to all_data
NormalizeCall ==
    /\ pc = "normalize"
    /\ LET r == Normalize(tickers[ti], dates[di], raw_data)
       IN  /\ all_data' = Accumulate(all_data, r.out)
           /\ IF r.raised
              THEN /\ Except("pair", << >>)
                   /\ pairLog' = SetLast(pairLog, PairEntry("exception", Len(r.out)))
              ELSE /\ Advance
                   /\ pairLog' = SetLast(pairLog, PairEntry("ok", Len(r.out)))
                   /\ UNCHANGED << log, failure >>
    /\ UNCHANGED << page, start_date, end_date, tickers, dates, raw_data, lastNav, browser,
                    closeCalls, exportCalls, exported, outcome >>

\* lines 142-147: DataFrame(all_data).to_csv(...), which may raise
Export ==
    /\ pc = "export"
    /\ exportCalls' = exportCalls + 1
    /\ \E ok \in BOOLEAN :
         IF ok
         THEN /\ exported' = all_data
              /\ log' = Append(log, << "info", "Saved consolidated data" >>)
              /\ pc' = "finally"
              /\ UNCHANGED << ti, di, failure >>
         ELSE /\ Except("export", << >>)
              /\ UNCHANGED exported
    /\ UNCHANGED << page, start_date, end_date, tickers, dates, all_data, raw_data, lastNav,
                    browser, closeCalls, pairLog, outcome >>

\* close(), lines 62-68: what it does to the browser and the log, and
\* whether an exception leaves it
closeMut(quitOk) ==
    IF quitOk
    THEN [browser |-> "closed", raised |-> FALSE,
          logged |-> << << "info", "WebDriver closed successfully" >> >>]
    ELSE [browser |-> "quit_failed", raised |-> TRUE, logged |-> << >>]

close(quitOk) ==
    IF quitOk
    THEN [browser |-> "closed", raised |-> FALSE,
          logged |-> << << "info", "WebDriver closed successfully" >> >>]
    ELSE [browser |-> "quit_failed", raised |-> FALSE,
          logged |-> << << "error", "Error closing WebDriver" >> >>]

\* how nyse_auction_scraper_example ends: line 149 caught every exception
\* of the try block, wherever it was raised, so only one of close is left
RunOutcomeMut(closeRaised, where) ==
    IF closeRaised \/ where = "export" THEN "raised" ELSE "returned"

RunOutcome(closeRaised, where) ==
    IF closeRaised THEN "raised" ELSE "returned"

\* lines 151-152: the finally block, then the function returns (or the
\* exception of close leaves it)
Finally ==
    /\ pc = "finally"
    /\ closeCalls' = closeCalls + 1
    /\ \E quitOk \in BOOLEAN :
         LET r == close(quitOk)
         IN  /\ browser' = r.browser
             /\ log' = log \o r.logged
             /\ outcome' = RunOutcome(r.raised, failure)
    /\ pc' = "done"
    /\ UNCHANGED << page, start_date, end_date, tickers, dates, ti, di, all_data, raw_data,
                    lastNav, exportCalls, exported, pairLog, failure >>

-----------------------------------------------------------------------------
(* A whole run                                                              *)

Init ==
    /\ pc = "main"
    /\ start_date \in MainDateStrings
    /\ end_date \in MainDateStrings
    /\ tickers \in TickerLists
    /\ dates = << >>
    /\ ti = 1
    /\ di = 1
    /\ all_data = << >>
    /\ page = NoPage
    /\ raw_data = EmptyBundle
    /\ lastNav = NoNav
    /\ log = << >>
    /\ browser = "none"
    /\ closeCalls = 0
    /\ exportCalls = 0
    /\ exported = << >>
    /\ pairLog = << >>
    /\ outcome = "running"
    /\ failure = "none"

Next ==
    \/ MainGetWeekdays
    \/ Construct
    \/ NavigateCall
    \/ ExtractCall
    \/ NormalizeCall
    \/ Export
    \/ Finally

Spec == Init /\ [][Next]_vars

-----------------------------------------------------------------------------
(* get_weekdays alone, on a wider set of date strings                       *)

WindowStart == DateString(12, 2, 2024, TRUE)

DateStrings ==
    { strftime(strptime(WindowStart) + k) : k \in 0..(DateSpan - 1) }
    \cup { DateString(12, 31, 2024, TRUE), DateString(1, 1, 2025, TRUE),
           DateString(1, 2, 2025, TRUE), DateString(12, 3, 2024, FALSE) }
    \cup { NoSuchDay, DateString(13, 1, 2024, TRUE), DateString(2, 29, 2025, TRUE) }

InitDates ==
    /\ pc = "main"
    /\ start_date \in DateStrings
    /\ end_date \in DateStrings
    /\ tickers = << >>
    /\ dates = << >>
    /\ ti = 1
    /\ di = 1
    /\ all_data = << >>
    /\ page = NoPage
    /\ raw_data = EmptyBundle
    /\ lastNav = NoNav
    /\ log = << >>
    /\ browser = "none"
    /\ closeCalls = 0
    /\ exportCalls = 0
    /\ exported = << >>
    /\ pairLog = << >>
    /\ outcome = "running"
    /\ failure = "none"

NextDates == MainGetWeekdays

SpecDates == InitDates /\ [][NextDates]_vars

-----------------------------------------------------------------------------
(* The normalizer alone, on bundles of every shape                          *)

Times(n) == [i \in 1..n |-> Time(i)]
Points(n) == [i \in 1..n |-> Point(i)]

\* null, or times and values of any two lengths up to MaxLen
AnySeries ==
    { NullSeries } \cup { Series(Times(a), Points(b)) : a \in 0..MaxLen, b \in 0..MaxLen }

FewSeries == { NullSeries, Series(Times(1), Points(MaxLen)) }

AnyPhase(S) ==
    { EmptyPhase } \cup
    { [assigned |-> TRUE, imbalance |-> i, paired |-> p, price |-> c] :
          i \in S, p \in S, c \in S }

Bundles ==
    { [opening |-> o, closing |-> c] : o \in AnyPhase(AnySeries), c \in AnyPhase(FewSeries) }

InitNormalize ==
    /\ pc = "normalize"
    /\ start_date = Monday
    /\ end_date = Monday
    /\ tickers = << "A" >>
    /\ dates = << Monday >>
    /\ ti = 1
    /\ di = 1
    /\ all_data = << >>
    /\ page = NoPage
    /\ raw_data \in Bundles
    /\ lastNav = [steps |-> << "get", "wait", "sleep" >>, ret |-> TRUE, raised |-> FALSE,
                  load |-> "ok", wait |-> "ok"]
    /\ log = << << "info", "WebDriver initialized successfully" >> >>
    /\ browser = "open"
    /\ closeCalls = 0
    /\ exportCalls = 0
    /\ exported = << >>
    /\ pairLog = << [symbol |-> "A", date |-> Monday, status |-> "navigated", count |-> 0] >>
    /\ outcome = "running"
    /\ failure = "none"

NextNormalize == NormalizeCall

SpecNormalize == InitNormalize /\ [][NextNormalize]_vars

-----------------------------------------------------------------------------
(* The in-page query alone, followed by the normalizer, on pages of every   *)
(* shape                                                                    *)

\* a heading without the word "Opening" in this spelling
HeaderLower == << "opening", "auction" >>

HeaderTexts == { HeaderOpening, HeaderClosing, HeaderLower }

\* a chart whose single point tells the position p it has in Highcharts.charts
PosChart(p) ==
    [defined |-> TRUE, hasSeries |-> TRUE, hasCategories |-> TRUE,
     categories |-> << Time(p) >>,
     points |-> << [y |-> 100 * p, label |-> LabelPool[((p - 1) % Len(LabelPool)) + 1]] >>]

ChartKinds == { "undefined", "noseries", "chart" }

MakeChart(kind, p) ==
    IF kind = "undefined" THEN UndefinedChart
    ELSE IF kind = "noseries" THEN NoSeriesChart
    ELSE PosChart(p)

ChartListsOfLen(n) ==
    { [p \in 1..n |-> MakeChart(kinds[p], p)] : kinds \in [1..n -> ChartKinds] }

HeaderListsOfLen(n) == [1..n -> HeaderTexts]

ExtractPages ==
    { [headers |-> h, charts |-> c] :
          h \in UNION { HeaderListsOfLen(n) : n \in 0..MaxHeaders },
          c \in UNION { ChartListsOfLen(n) : n \in 0..MaxCharts } }

InitExtract ==
    /\ pc = "extract"
    /\ start_date = Monday
    /\ end_date = Monday
    /\ tickers = << "A" >>
    /\ dates = << Monday >>
    /\ ti = 1
    /\ di = 1
    /\ all_data = << >>
    /\ page \in ExtractPages
    /\ raw_data = EmptyBundle
    /\ lastNav = [steps |-> << "get", "wait", "sleep" >>, ret |-> TRUE, raised |-> FALSE,
                  load |-> "ok", wait |-> "ok"]
    /\ log = << << "info", "WebDriver initialized successfully" >> >>
    /\ browser = "open"
    /\ closeCalls = 0
    /\ exportCalls = 0
    /\ exported = << >>
    /\ pairLog = << [symbol |-> "A", date |-> Monday, status |-> "navigated", count |-> 0] >>
    /\ outcome = "running"
    /\ failure = "none"

NextExtract ==
    \/ ExtractCall
    \/ NormalizeCall

SpecExtract == InitExtract /\ [][NextExtract]_vars

-----------------------------------------------------------------------------
(* Properties                                                               *)

\* the number of pairs of the cross product tickers x dates
PairCount == Len(tickers) * Len(dates)

\* the k-th pair of the cross product, symbols outer, dates inner
PairAt(k) ==
    [symbol |-> tickers[((k - 1) \div Len(dates)) + 1],
     date |-> dates[((k - 1) % Len(dates)) + 1]]

\* the try block of the orchestrator has been left
LoopLeft == pc \in {"export", "finally", "done"} /\ browser # "none"

\* C1: an exception escaping the navigator, extractor or normalizer for one
\* pair is isolated to that pair: the pair contributes no record and, once
\* the loop is left, every pair of the cross product has been processed.
C1_FailureIsolation ==
    \A k \in DOMAIN pairLog :
        pairLog[k].status = "exception" =>
            /\ pairLog[k].count = 0
            /\ (LoopLeft => Len(pairLog) = PairCount)

\* C2: a step in which navigate returns false for the pair (ti, di) appends
\* nothing to all_data, logs a warning naming the pair as the last log entry,
\* raises nothing, and moves on to the next pair of the cross product (or
\* to the export after the last pair).
C2_NavFailureContinues ==
    [][ (pc = "nav" /\ pc' # "extract")
        => /\ ~lastNav'.ret
           /\ all_data' = all_data
           /\ Len(log') > Len(log)
           /\ log'[Len(log')] = NavigateWarning(tickers[ti], dates[di])
           /\ SubSeq(log', 1, Len(log)) = log
           /\ outcome' = "running"
           /\ failure' = "none"
           /\ pairLog' = Append(pairLog, [symbol |-> tickers[ti], date |-> dates[di],
                                          status |-> "navfail", count |-> 0])
           /\ IF Len(pairLog') < PairCount
              THEN /\ pc' = "nav"
                   /\ [symbol |-> tickers'[ti'], date |-> dates'[di']]
                          = PairAt(Len(pairLog') + 1)
              ELSE pc' = "export" ]_vars

\* a failed navigation between two pairs that each contributed records
C2_Witness ==
    \E k \in DOMAIN pairLog :
        /\ pairLog[k].status = "navfail"
        /\ k > 1
        /\ k < Len(pairLog)
        /\ pairLog[k - 1].count > 0
        /\ pairLog[k + 1].status = "ok"
        /\ pairLog[k + 1].count > 0
        /\ \E i \in DOMAIN log : log[i] = NavigateWarning(pairLog[k].symbol, pairLog[k].date)

\* C3: once the browser is constructed, close() is entered exactly once per
\* run: never before the try block is left, never twice, and once when the
\* run is over, whatever interrupted it; and a run that is not over can
\* always take its next step.
C3_CloseExactlyOnce ==
    /\ closeCalls \in {0, 1}
    /\ (browser = "none" => closeCalls = 0)
    /\ (pc \in {"nav", "extract", "normalize", "export", "finally"}
            => closeCalls = 0 /\ browser = "open")
    /\ (pc = "done" /\ browser # "none" => closeCalls = 1)
    /\ (pc # "done" => ENABLED Next)

\* a finished run whose loop was interrupted by an exception after an
\* earlier pair went through, closed once
C3_Witness ==
    /\ pc = "done"
    /\ failure = "pair"
    /\ Len(pairLog) > 1
    /\ Len(pairLog) < PairCount
    /\ closeCalls = 1

FirstIndex(seq, e) ==
    IF \E i \in DOMAIN seq : seq[i] = e
    THEN CHOOSE i \in DOMAIN seq : seq[i] = e /\ \A j \in 1..(i - 1) : seq[j] # e
    ELSE 0

C5_ExportAlwaysAttempted ==
    /\ exportCalls \in {0, 1}
    /\ (exportCalls = 1 => Len(pairLog) = PairCount)
    /\ (pc = "done" /\ browser # "none" =>
            /\ exportCalls = 1
            /\ (failure = "none" => exported = all_data))

\* C6: navigate never lets an exception out; it returns false when the load
\* or the readiness wait failed, logging the error, and returns true only
\* after load, wait and settle delay all ran.
C6_NavigateNeverRaises ==
    /\ ~lastNav.raised
    /\ (lastNav.ret => /\ lastNav.load = "ok"
                       /\ lastNav.wait = "ok"
                       /\ lastNav.steps = << "get", "wait", "sleep" >>)
    /\ (lastNav.load = "error" \/ lastNav.wait \in {"timeout", "error"}
            => /\ ~lastNav.ret
               /\ \E i \in DOMAIN log : log[i] = NavigationError)

\* a readiness timeout turned into a false return, the loop going on
C6_Witness ==
    /\ lastNav.load = "ok"
    /\ lastNav.wait = "timeout"
    /\ ~lastNav.ret
    /\ pc = "nav"
    /\ failure = "none"

\* the sum, over the present slots of a bundle from slot k on, of len(times)
\* (byTimes) or of the shorter of len(times) and len(values)
RECURSIVE SumSlots(_, _, _)
SumSlots(raw, k, byTimes) ==
    IF k > Len(SlotOrder)
    THEN 0
    ELSE LET series == raw[SlotOrder[k][1]][SlotOrder[k][2]]
             here == IF ~(raw[SlotOrder[k][1]].assigned /\ series.present) THEN 0
                     ELSE IF byTimes THEN Len(series.times)
                     ELSE Min(Len(series.times), Len(series.values))
         IN  here + SumSlots(raw, k + 1, byTimes)

\* every present series has as many times as values
Aligned(raw) ==
    \A k \in DOMAIN SlotOrder :
        LET series == raw[SlotOrder[k][1]][SlotOrder[k][2]]
        IN  (raw[SlotOrder[k][1]].assigned /\ series.present)
                => Len(series.times) = Len(series.values)

\* C7 as stated: for every bundle, also one whose times and values differ
\* in length, the normalizer emits as many records as the sum of len(times)
\* over the present slots.
C7_CountIsSumOfTimes ==
    pc # "normalize" => Len(all_data) = SumSlots(raw_data, 1, TRUE)

\* C7, amended: the normalizer emits, for one request, as many records as
\* the sum over the present slots of the shorter of len(times) and
\* len(values); that is the sum of len(times) when every present series has
\* times and values of the same length.
C7_CountIsSumOfZipped ==
    pc # "normalize" =>
        /\ failure = "none"
        /\ Len(all_data) = SumSlots(raw_data, 1, FALSE)
        /\ pairLog[1].count = Len(all_data)
        /\ (Aligned(raw_data) => Len(all_data) = SumSlots(raw_data, 1, TRUE))

\* a normalized bundle with one series longer in times and one longer in values
C7_Witness ==
    /\ pc # "normalize"
    /\ raw_data.opening.assigned
    /\ raw_data.opening.imbalance.present
    /\ Len(raw_data.opening.imbalance.times) > Len(raw_data.opening.imbalance.values)
    /\ raw_data.opening.paired.present
    /\ Len(raw_data.opening.paired.times) < Len(raw_data.opening.paired.values)
    /\ raw_data.closing.assigned
    /\ Len(all_data) > 1

\* both strings parse and the range is not inverted
ValidRange == Parseable(start_date) /\ Parseable(end_date)
                 /\ strptime(start_date) <= strptime(end_date)

C9_InvalidRangeFails ==
    (pc # "main"
       /\ (~Parseable(start_date)
             \/ (Parseable(start_date) /\ Parseable(end_date)
                   /\ strptime(end_date) < strptime(start_date))))
    => (outcome = "raised" /\ failure = "range" /\ browser = "none" /\ pairLog = << >>)

\* C10: the pairs are navigated in the order of the cross product (symbols
\* outer, dates inner), none twice, and when the loop is left every pair
\* has been navigated.
C10_EveryPairOnceInOrder ==
    /\ Len(pairLog) <= PairCount
    /\ \A k \in DOMAIN pairLog :
          [symbol |-> pairLog[k].symbol, date |-> pairLog[k].date] = PairAt(k)
    /\ (LoopLeft => Len(pairLog) = PairCount)

\* the external metric name the claims give for a chart slot
ClaimedName(slot) ==
    CASE slot = "imbalance" -> "imbalance"
      [] slot = "paired" -> "paired_quantity"
      [] slot = "price" -> "clearing_price"

\* the records of all_data with the given auction_type and metric, in order
Group(auction_type, name) ==
    SelectSeq(all_data, LAMBDA r : r.auction_type = auction_type /\ r.metric = name)

\* C11: for every present (phase, metric) slot, the records of its group
\* appear in index order, one per zipped pair and no others, the i-th with
\* time = times[i], value = values[i].y, label = values[i].label (null
\* kept), the request's symbol and date and the group's auction_type.
C11_GroupInIndexOrder ==
    pc # "normalize" =>
        \A k \in DOMAIN SlotOrder :
            LET t == SlotOrder[k][1]
                m == SlotOrder[k][2]
                series == raw_data[t][m]
                g == Group(t, ClaimedName(m))
            IN  (raw_data[t].assigned /\ series.present) =>
                    /\ Len(g) = Min(Len(series.times), Len(series.values))
                    /\ \A i \in DOMAIN g :
                          g[i] = [symbol |-> tickers[1], date |-> dates[1],
                                  auction_type |-> t, metric |-> ClaimedName(m),
                                  time |-> series.times[i],
                                  value |-> series.values[i].y,
                                  label |-> series.values[i].label]

\* the scenario of the specification: opening.imbalance with two points, the
\* second without label, every other slot absent, gives exactly two records
C11_Witness ==
    /\ pc # "normalize"
    /\ ~raw_data.closing.assigned
    /\ all_data =
         << [symbol |-> "A", date |-> Monday, auction_type |-> "opening",
             metric |-> "imbalance", time |-> "09:28:00", value |-> 1000,
             label |-> "1.0K"],
            [symbol |-> "A", date |-> Monday, auction_type |-> "opening",
             metric |-> "imbalance", time |-> "09:29:00", value |-> 1200,
             label |-> NULL] >>

\* C12: every record's metric is imbalance, paired_quantity or
\* clearing_price, and each slot's records carry the name of that slot:
\* per phase, the records named for a slot are as many as that slot zips.
C12_MetricNames ==
    pc # "normalize" =>
        /\ \A i \in DOMAIN all_data :
              all_data[i].metric \in {"imbalance", "paired_quantity", "clearing_price"}
        /\ \A k \in DOMAIN SlotOrder :
              LET t == SlotOrder[k][1]
                  m == SlotOrder[k][2]
                  series == raw_data[t][m]
              IN  Cardinality({ i \in DOMAIN all_data :
                                   /\ all_data[i].auction_type = t
                                   /\ all_data[i].metric = ClaimedName(m) })
                    = IF raw_data[t].assigned /\ series.present
                      THEN Min(Len(series.times), Len(series.values))
                      ELSE 0

\* records of the three names, the three slots holding series of three
\* different zipped lengths
C12_Witness ==
    /\ pc # "normalize"
    /\ Len(Group("opening", "imbalance")) = 0
    /\ raw_data.opening.imbalance.present
    /\ Len(Group("opening", "paired_quantity")) = 1
    /\ Len(Group("opening", "clearing_price")) = 2

\* C13: a slot whose series is null, and a phase that is empty, give no
\* record and no error; a bundle with both phases empty gives no record.
C13_AbsentSlotsSkipped ==
    pc # "normalize" =>
        /\ failure = "none"
        /\ pc = "export"
        /\ \A k \in DOMAIN SlotOrder :
              LET t == SlotOrder[k][1]
                  m == SlotOrder[k][2]
              IN  /\ (~raw_data[t].assigned =>
                          \A i \in DOMAIN all_data : all_data[i].auction_type # t)
                  /\ (~raw_data[t][m].present =>
                          \A i \in DOMAIN all_data :
                              ~(all_data[i].auction_type = t
                                  /\ all_data[i].metric = ClaimedName(m)))
        /\ (~raw_data.opening.assigned /\ ~raw_data.closing.assigned => all_data = << >>)

\* an opening phase whose three slots are null beside an empty closing phase
C13_Witness ==
    /\ pc = "export"
    /\ raw_data.opening.assigned
    /\ ~raw_data.opening.imbalance.present
    /\ ~raw_data.opening.paired.present
    /\ ~raw_data.opening.price.present
    /\ ~raw_data.closing.assigned
    /\ all_data = << >>
    /\ failure = "none"

\* C14: for every pair the steps run in the order navigate, extract,
\* normalize, append: the query runs only right after navigate returned
\* true for the same pair, the normalizer only right after the query, records
\* are appended only by the normalizer and carry that pair; after navigate
\* returned false the query is not run for that pair.
C14_NavigateExtractNormalize ==
    [][ /\ (pc' = "extract" => /\ pc = "nav"
                               /\ lastNav'.ret
                               /\ ti' = ti /\ di' = di)
        /\ (pc = "nav" /\ ~lastNav'.ret =>
                /\ pc' \notin {"extract", "normalize"}
                /\ raw_data' = raw_data
                /\ all_data' = all_data)
        /\ (pc = "extract" =>
                /\ lastNav.ret
                /\ pairLog[Len(pairLog)] =
                      [symbol |-> tickers[ti], date |-> dates[di],
                       status |-> "navigated", count |-> 0]
                /\ all_data' = all_data)
        /\ (pc' = "normalize" => /\ pc = "extract"
                                 /\ raw_data' = raw_data_script(page)
                                 /\ ti' = ti /\ di' = di)
        /\ (raw_data' # raw_data => pc = "extract")
        /\ (all_data' # all_data =>
                /\ pc = "normalize"
                /\ lastNav.ret
                /\ pairLog[Len(pairLog)].symbol = tickers[ti]
                /\ pairLog[Len(pairLog)].date = dates[di]
                /\ \A i \in (Len(all_data) + 1)..Len(all_data') :
                      /\ all_data'[i].symbol = tickers[ti]
                      /\ all_data'[i].date = dates[di]) ]_vars

\* the second pair about to be normalized after the first failed to navigate
C14_Witness ==
    /\ pc = "normalize"
    /\ Len(pairLog) = 2
    /\ pairLog[1].status = "navfail"
    /\ pairLog[2].status = "navigated"
    /\ lastNav.ret
    /\ raw_data.opening.assigned

\* C15: a navigate call loads the URL first; the readiness wait follows
\* only a load that succeeded, the settle delay only a wait that succeeded,
\* and true is returned exactly after the settle delay.
C15_NavigateStepOrder ==
    lastNav.load # "none" =>
        /\ lastNav.steps[1] = "get"
        /\ (lastNav.load = "error" => lastNav.steps = << "get" >>)
        /\ (lastNav.load = "ok" /\ lastNav.wait # "ok"
                => lastNav.steps = << "get", "wait" >>)
        /\ (lastNav.load = "ok" /\ lastNav.wait = "ok"
                => lastNav.steps = << "get", "wait", "sleep" >>)
        /\ (lastNav.ret <=> lastNav.steps[Len(lastNav.steps)] = "sleep")

\* a call that went through the three steps, and the query about to run
C15_Witness ==
    /\ lastNav.steps = << "get", "wait", "sleep" >>
    /\ lastNav.ret
    /\ pc = "extract"

\* the phase the claims give a heading: opening when its text holds the
\* word "Opening", closing otherwise
ClaimedPhase(text) ==
    IF \E w \in DOMAIN text : text[w] = "Opening" THEN "opening" ELSE "closing"

\* the headings (counted from 0) of the page that fall to the phase
HeadingsOf(phase) ==
    { k \in 0..(Len(page.headers) - 1) : ClaimedPhase(page.headers[k + 1]) = phase }

\* the last of them
LastHeadingOf(phase) ==
    CHOOSE k \in HeadingsOf(phase) : \A j \in HeadingsOf(phase) : j <= k

\* the chart instance at index i (from 0) exists and has a first series
GoodChart(i) ==
    /\ i < Len(page.charts)
    /\ page.charts[i + 1].defined
    /\ page.charts[i + 1].hasSeries

\* C16: charts go to headings by position: the slots imbalance, paired,
\* price of a phase hold the chart instances 3k, 3k+1, 3k+2 of the heading
\* k (from 0, document order) that fell to the phase, a heading being
\* opening if its text contains "Opening" and closing otherwise; a phase
\* without heading stays {}.
C16_PositionalTriplets ==
    pc = "normalize" =>
        \A t \in {"opening", "closing"} :
            IF HeadingsOf(t) = {}
            THEN ~raw_data[t].assigned
            ELSE /\ raw_data[t].assigned
                 /\ \A j \in 0..2 :
                       LET i == 3 * LastHeadingOf(t) + j
                           series == raw_data[t][Metrics[j + 1]]
                       IN  IF GoodChart(i)
                           THEN /\ series.present
                                /\ series.hasTimes
                                /\ series.times = page.charts[i + 1].categories
                                /\ series.values = page.charts[i + 1].points
                           ELSE ~series.present

\* a closing heading before an opening one, six charts: opening holds the
\* charts 3, 4, 5 and closing the charts 0, 1, 2
C16_Witness ==
    /\ pc = "normalize"
    /\ page.headers = << HeaderClosing, HeaderOpening >>
    /\ Len(page.charts) = 6
    /\ raw_data.opening.imbalance.present
    /\ raw_data.opening.imbalance.values[1].y = 400
    /\ raw_data.opening.price.present
    /\ raw_data.opening.price.values[1].y = 600
    /\ raw_data.closing.paired.present
    /\ raw_data.closing.paired.values[1].y = 200

\* C17: a slot whose chart instance is missing (too few charts), undefined
\* or without first series comes back null while the other slots come back
\* with their series; the query can always return; and the normalizer
\* then emits no record for a null slot and raises nothing.
C17_MissingChartIsNull ==
    /\ (pc = "extract" => ENABLED (ExtractCall /\ pc' = "normalize"))
    /\ (pc \in {"normalize", "export"} =>
          \A t \in {"opening", "closing"} :
              HeadingsOf(t) # {} =>
                  \A j \in 0..2 :
                      LET i == 3 * LastHeadingOf(t) + j
                          series == raw_data[t][Metrics[j + 1]]
                          records == { r \in DOMAIN all_data :
                                          /\ all_data[r].auction_type = t
                                          /\ all_data[r].metric = ClaimedName(Metrics[j + 1]) }
                      IN  /\ (series.present <=> GoodChart(i))
                          /\ (pc = "export" =>
                                Cardinality(records) = IF GoodChart(i) THEN 1 ELSE 0))
    /\ (pc \notin {"extract", "normalize"} /\ raw_data # EmptyBundle => failure = "none")

\* two headings and four charts: the closing phase has its first slot and
\* lacks the two others, and one record comes out of it
C17_Witness ==
    /\ pc = "export"
    /\ page.headers = << HeaderOpening, HeaderClosing >>
    /\ Len(page.charts) = 4
    /\ raw_data.closing.imbalance.present
    /\ ~raw_data.closing.paired.present
    /\ ~raw_data.closing.price.present
    /\ ~raw_data.opening.paired.present
    /\ Len(Group("closing", "imbalance")) = 1
    /\ Len(all_data) = 3
    /\ failure = "none"

\* the chart positions (from 1) whose point value y a record may carry
ValuesOfHeading(k) == { 100 * (3 * k + j) : j \in 1..3 }

\* C19: when several headings fall to the same phase, the records of that
\* phase come from the chart triplet of the last of them only, one per
\* chart of that triplet that has a series; nothing of an earlier heading's
\* triplet is left.
C19_LastHeadingWins ==
    pc = "export" =>
        \A t \in {"opening", "closing"} :
            Cardinality(HeadingsOf(t)) >= 2 =>
                LET k == LastHeadingOf(t)
                    records == { r \in DOMAIN all_data : all_data[r].auction_type = t }
                IN  /\ \A r \in records : all_data[r].value \in ValuesOfHeading(k)
                    /\ Cardinality(records)
                         = Cardinality({ j \in 0..2 : GoodChart(3 * k + j) })

\* two headings that both fall to closing over six charts: only the charts
\* 3, 4, 5 reach the records
C19_Witness ==
    /\ pc = "export"
    /\ page.headers = << HeaderClosing, HeaderLower >>
    /\ Len(all_data) = 3
    /\ all_data[1].value = 400
    /\ all_data[2].value = 500
    /\ all_data[3].value = 600
    /\ \A r \in DOMAIN all_data : all_data[r].auction_type = "closing"

\* the position in the cross product of the pair a record carries
PairIndexOf(record) ==
    CHOOSE k \in 1..PairCount :
        PairAt(k) = [symbol |-> record.symbol, date |-> record.date]

\* C18: every step leaves all_data an extension of what it was (nothing is
\* removed, reordered or changed), and in all_data the records of an
\* earlier pair of the iteration stand before those of a later pair.
C18_AppendOnly ==
    [][ /\ Len(all_data') >= Len(all_data)
        /\ SubSeq(all_data', 1, Len(all_data)) = all_data
        /\ \A i \in DOMAIN all_data' : \A j \in DOMAIN all_data' :
              i < j => PairIndexOf(all_data'[i]) <= PairIndexOf(all_data'[j]) ]_vars

\* records of the first and of the last of four pairs, a pair without
\* records between them
C18_Witness ==
    /\ PairCount = 4
    /\ Len(pairLog) = 4
    /\ pairLog[2].count = 0
    /\ \E i \in DOMAIN all_data : PairIndexOf(all_data[i]) = 1
    /\ \E i \in DOMAIN all_data : PairIndexOf(all_data[i]) = 4

\* C20: close() lets no exception out: when quitting the driver fails the
\* error is logged as the last log entry, and the orchestrator returns
\* normally after the finally block, whatever happened in the try block.
C20_CloseNeverRaises ==
    closeCalls > 0 =>
        /\ pc = "done"
        /\ outcome = "returned"
        /\ browser \in {"closed", "quit_failed"}
        /\ (browser = "quit_failed"
              => log[Len(log)] = << "error", "Error closing WebDriver" >>)
        /\ (browser = "closed"
              => log[Len(log)] = << "info", "WebDriver closed successfully" >>)
        /\ (failure # "none" => log[Len(log) - 1] = ScrapingFailed)

\* a run whose export went through and whose driver then failed to quit
C20_Witness ==
    /\ pc = "done"
    /\ browser = "quit_failed"
    /\ outcome = "returned"
    /\ failure = "none"
    /\ Len(exported) > 0

====
